---- MODULE Spec2Model ----
(***************************************************************************)
(* FileLogger (src/src/app/filelogger.cpp): the rotating log file, its     *)
(* backups, the age-based sweep and the background compression tasks,      *)
(* over an explicit file system.                                           *)
(*                                                                         *)
(* A file is [data, mtime].  The data of a plain log file is the sequence  *)
(* of records written to it; the data of a .gz file is the gzip stream of  *)
(* such a sequence (header, one deflated item per record, trailer).        *)
(* A path is [dir, kind, n, tok]:                                          *)
(*   kind "log" : <dir>/qbittorrent.log                                    *)
(*   kind "bak" : <dir>/qbittorrent.log.bak[n]       (n = 0: no number)    *)
(*   kind "gz"  : <dir>/qbittorrent.log.bak[n].gz                          *)
(*   kind "tmp" : <dir>/qbittorrent.log.bak[n].<tok>.gz                    *)
(***************************************************************************)
EXTENDS Integers, Sequences, FiniteSets, TLC

VARIABLES
    m_age, m_ageType, m_backup, m_compressBackups, m_deleteOld, m_maxSize,
    m_path,        \* directory of the log file ("" before the first changePath)
    m_logFile,     \* TRUE iff m_logFile.isOpen()
    m_flusher,     \* TRUE iff the single-shot flush timer is active
    remaining,     \* m_flusher.remainingTime() in seconds, 0 when it is not active
    fs,            \* the file system: existing path -> file
    pool,          \* QThreadPool::globalInstance(): the CmpressTasks, in start order
    now,           \* QDateTime::currentDateTime(), in days
    alive,         \* FALSE once the process has terminated
    nextId,        \* number of the next record offered to the logger
    written,       \* history: what a logger that never rotates would hold
    picked,        \* history: the names makeBackup obtained, in order
    sweep,         \* history: the last run of deleteOld
    critical,      \* history: CRITICAL messages handed to Logger
    unflushed      \* history: seconds since the oldest append that neither a
                   \* flushLog nor a close of the file has followed, or NoRecord

vars == <<m_age, m_ageType, m_backup, m_compressBackups, m_deleteOld, m_maxSize,
          m_path, m_logFile, m_flusher, fs, pool, now, alive, nextId,
          written, picked, sweep, critical, remaining, unflushed>>

config == <<m_age, m_ageType, m_backup, m_compressBackups, m_deleteOld, m_maxSize>>
history == <<written, picked, sweep, critical>>
timer == <<m_flusher, remaining, unflushed>>

----------------------------------------------------------------------------
(* Bounds of the model *)

MaxAppends == 4
MaxTime == 3
MaxCritical == 2

(* Program constants *)

QTEXTSTREAM_BUFFERSIZE == 16384
FLUSH_INTERVAL == 2
MonthLen == 2
YearLen == 3

Dirs == {"d1", "d2"}
AgeTypes == {"DAYS", "MONTHS", "YEARS"}
InvalidTime == -1
NoRecord == -1

----------------------------------------------------------------------------
(* Paths and the file system primitives *)

LogPath(d) == [dir |-> d, kind |-> "log", n |-> 0, tok |-> 0]

BakPath(d, counter, compressed) ==
    [dir |-> d, kind |-> IF compressed THEN "gz" ELSE "bak", n |-> counter, tok |-> 0]

TmpPath(src, tok) == [dir |-> src.dir, kind |-> "tmp", n |-> src.n, tok |-> tok]

exists(f, p) == p \in DOMAIN f

putFile(f, p, file) ==
    [q \in DOMAIN f \cup {p} |-> IF q = p THEN file ELSE f[q]]

removeFile(f, p) == [q \in DOMAIN f \ {p} |-> f[q]]

\* QFile::rename: fails when the source is missing or the target exists.
renameFile(f, from, to) ==
    IF exists(f, from) /\ ~exists(f, to)
    THEN putFile(removeFile(f, from), to, f[from])
    ELSE f

lastModified(f, p) == IF exists(f, p) THEN f[p].mtime ELSE InvalidTime

RECURSIVE Size(_)
Size(data) == IF data = <<>> THEN 0 ELSE Head(data).len + Size(Tail(data))

fileSize(f, p) == IF exists(f, p) THEN Size(f[p].data) ELSE 0

----------------------------------------------------------------------------
(* handleBackups: the first free name <base>.bak, .bak1, .bak2, ... *)

\* mutant: the counter is advanced twice per round
RECURSIVE backupNameSkipping(_, _, _, _)
backupNameSkipping(f, d, compressed, counter) ==
    IF exists(f, BakPath(d, counter, compressed))
    THEN backupNameSkipping(f, d, compressed, counter + 2)
    ELSE BakPath(d, counter, compressed)

RECURSIVE backupName(_, _, _, _)
backupName(f, d, compressed, counter) ==
    IF exists(f, BakPath(d, counter, compressed))
    THEN backupName(f, d, compressed, counter + 1)
    ELSE BakPath(d, counter, compressed)

\* mutant: no search for a free name, the rename replaces <base>.bak
handleBackupsClobber(f, d, renameFrom, compressed, renameOk) ==
    LET renameTo == BakPath(d, 0, compressed)
        done == renameOk /\ exists(f, renameFrom)
    IN  [fs       |-> IF done
                      THEN putFile(removeFile(f, renameFrom), renameTo, f[renameFrom])
                      ELSE f,
         renameTo |-> renameTo,
         existed  |-> exists(f, renameTo),
         done     |-> done]

\* renameOk = FALSE: the rename fails for a reason outside the program.
handleBackups(f, d, renameFrom, compressed, renameOk) ==
    LET renameTo == backupName(f, d, compressed, 0)
    IN  [fs       |-> IF renameOk THEN renameFile(f, renameFrom, renameTo) ELSE f,
         renameTo |-> renameTo,
         existed  |-> exists(f, renameTo),
         done     |-> renameOk /\ exists(f, renameFrom) /\ ~exists(f, renameTo)]

----------------------------------------------------------------------------
(* isObsolete.  An invalid QDateTime (no such file) stays invalid under    *)
(* addDays/addMonths/addYears and precedes every valid one.                *)

addAge(mtime, ageType, age) ==
    CASE ageType = "DAYS"   -> mtime + age
      [] ageType = "MONTHS" -> mtime + age * MonthLen
      [] OTHER              -> mtime + age * YearLen

\* mutant: "<" for "<="
isObsoleteStrict(mtime, ageType, age) ==
    IF mtime = InvalidTime THEN TRUE ELSE addAge(mtime, ageType, age) < now

isObsolete(mtime, ageType, age) ==
    IF mtime = InvalidTime THEN TRUE ELSE addAge(mtime, ageType, age) <= now

----------------------------------------------------------------------------
(* Utils::Gzip.  A record is [k |-> "rec", id, len]; its deflated form is  *)
(* [k |-> "z", id, len].  A gzip stream is a header, the deflated items    *)
(* and a trailer carrying the number of items (ISIZE).                     *)

GzHeader == [k |-> "hdr", id |-> 0, len |-> 0]
GzTrailer(count) == [k |-> "trl", id |-> count, len |-> 0]
deflate(item) == [k |-> "z", id |-> item.id, len |-> item.len]
inflate(item) == [k |-> "rec", id |-> item.id, len |-> item.len]

\* what the stream holds before deflate(Z_FINISH) has written the trailer
compressPartial(data) ==
    <<GzHeader>> \o [i \in 1..Len(data) |-> deflate(data[i])]

compress(data) == compressPartial(data) \o <<GzTrailer(Len(data))>>

decompress(bytes) ==
    LET n == Len(bytes) - 2
        wellFormed ==
            /\ n >= 0
            /\ bytes[1] = GzHeader
            /\ bytes[n + 2] = GzTrailer(n)
            /\ \A i \in 2..(n + 1) : bytes[i].k = "z"
    IN  IF wellFormed
        THEN [ok |-> TRUE, data |-> [i \in 1..n |-> inflate(bytes[i + 1])]]
        ELSE [ok |-> FALSE, data |-> <<>>]

----------------------------------------------------------------------------
(* The main thread: FileLogger's slots and methods *)

NoSweep == [ran |-> FALSE, list |-> <<>>, examined |-> 0, removed |-> {},
            failed |-> {}, at |-> 0, ageType |-> "DAYS", age |-> 0]

\* QTextStream/QFile write of one record to an existing file
writeRecord(f, p, rec) ==
    putFile(f, p, [data |-> Append(f[p].data, rec), mtime |-> now])

\* the name filter of deleteOld: "qbittorrent.log.bak*" or "qbittorrent.log.bak*.gz"
matchesFilter(p, d, compressed) ==
    /\ p.dir = d
    /\ p.kind # "log"
    /\ compressed => p.kind \in {"gz", "tmp"}

\* mutant: QDir::Time without QDir::Reversed: newest first
RECURSIVE entryInfoListNewestFirst(_, _)
entryInfoListNewestFirst(f, S) ==
    IF S = {} THEN <<>>
    ELSE LET p == CHOOSE q \in S : \A r \in S : f[q].mtime >= f[r].mtime
         IN  <<[path |-> p, mtime |-> f[p].mtime]>> \o entryInfoListNewestFirst(f, S \ {p})

\* QDir::Time | QDir::Reversed: oldest first
RECURSIVE entryInfoList(_, _)
entryInfoList(f, S) ==
    IF S = {} THEN <<>>
    ELSE LET p == CHOOSE q \in S : \A r \in S : f[q].mtime <= f[r].mtime
         IN  <<[path |-> p, mtime |-> f[p].mtime]>> \o entryInfoList(f, S \ {p})

\* mutant: the loop ends at the first removal that fails
RECURSIVE deleteOldFromAborts(_, _, _, _)
deleteOldFromAborts(f, fileList, i, rmFail) ==
    IF i > Len(fileList) THEN [fs |-> f, examined |-> Len(fileList), failed |-> {}]
    ELSE IF isObsolete(fileList[i].mtime, m_ageType, m_age)
         THEN IF fileList[i].path \in rmFail
              THEN [fs |-> f, examined |-> i, failed |-> {fileList[i].path}]
              ELSE deleteOldFromAborts(removeFile(f, fileList[i].path),
                                       fileList, i + 1, rmFail)
         ELSE [fs |-> f, examined |-> i, failed |-> {}]

\* the loop of deleteOld from entry i on; rmFail: the paths whose removal
\* fails; the result of Utils::Fs::removeFile is not looked at
RECURSIVE deleteOldFrom(_, _, _, _)
deleteOldFrom(f, fileList, i, rmFail) ==
    IF i > Len(fileList) THEN [fs |-> f, examined |-> Len(fileList), failed |-> {}]
    ELSE IF isObsolete(fileList[i].mtime, m_ageType, m_age)
         THEN LET fails == fileList[i].path \in rmFail
                  r == deleteOldFrom(IF fails THEN f ELSE removeFile(f, fileList[i].path),
                                     fileList, i + 1, rmFail)
              IN  [r EXCEPT !.failed = IF fails THEN @ \cup {fileList[i].path} ELSE @]
         ELSE [fs |-> f, examined |-> i, failed |-> {}]

deleteOld(f, d, rmFail) ==
    LET fileList == entryInfoList(f, {p \in DOMAIN f : matchesFilter(p, d, m_compressBackups)})
        r == deleteOldFrom(f, fileList, 1, rmFail)
    IN  [fs    |-> r.fs,
         sweep |-> [ran |-> TRUE, list |-> fileList, examined |-> r.examined,
                    removed |-> DOMAIN f \ DOMAIN r.fs, failed |-> r.failed,
                    at |-> now, ageType |-> m_ageType, age |-> m_age]]

NoPath == [dir |-> "", kind |-> "none", n |-> 0, tok |-> 0]

\* m_path: the backup to compress; base: the m_path bound into m_callback;
\* pc: where run() stands; err: why compressBackupFile returned false
CmpressTask(p, d) ==
    [m_path |-> p, base |-> d, pc |-> "queued", err |-> "", destPath |-> NoPath,
     mtime |-> InvalidTime, input |-> <<>>, renameTo |-> NoPath]

\* mutant: the record of the running append is written after the reopen
makeBackupBeforeWrite(f, d, renameOk) ==
    LET log == LogPath(d)
        data == IF exists(f, log) THEN f[log].data ELSE <<>>
        kept == IF data = <<>> THEN f
                ELSE putFile(f, log, [data |-> SubSeq(data, 1, Len(data) - 1),
                                      mtime |-> f[log].mtime])
        r == handleBackups(kept, d, log, FALSE, renameOk)
    IN  [fs     |-> IF data = <<>> \/ ~r.done THEN handleBackups(f, d, log, FALSE, renameOk).fs
                    ELSE putFile(r.fs, log, [data |-> <<data[Len(data)]>>, mtime |-> now]),
         pool   |-> IF m_compressBackups
                    THEN Append(pool, CmpressTask(r.renameTo, d))
                    ELSE pool,
         picked |-> Append(picked, [path |-> r.renameTo, existed |-> r.existed,
                                    done |-> r.done, data |-> data])]

makeBackup(f, d, renameOk) ==
    LET r == handleBackups(f, d, LogPath(d), FALSE, renameOk)
    IN  [fs     |-> r.fs,
         pool   |-> IF m_compressBackups
                    THEN Append(pool, CmpressTask(r.renameTo, d))
                    ELSE pool,
         picked |-> Append(picked, [path |-> r.renameTo, existed |-> r.existed,
                                    done |-> r.done,
                                    data |-> IF exists(f, LogPath(d))
                                             THEN f[LogPath(d)].data ELSE <<>>])]

\* mutant: ">" for ">="
needsBackupStrict(f, p) == m_backup /\ fileSize(f, p) > m_maxSize

\* "m_backup && (m_logFile.size() >= m_maxSize)"
needsBackup(f, p) == m_backup /\ fileSize(f, p) >= m_maxSize

\* mutant: the stream is flushed after every <<
streamUnbuffered(len) == len >= 0

\* QTextStream keeps what << gave it in its own buffer and hands it to the
\* device during << only once the buffer outgrows QTEXTSTREAM_BUFFERSIZE
streamOverflows(len) == len > QTEXTSTREAM_BUFFERSIZE

OpenOutcomes == {"ok", "openFails", "setPermissionsFails"}

\* mutant: WriteOnly without Append empties the file
openLogFileTruncate(f, d, open) ==
    [fs       |-> IF open # "openFails"
                  THEN putFile(f, LogPath(d), [data |-> <<>>, mtime |-> now])
                  ELSE f,
     isOpen   |-> open = "ok",
     critical |-> IF open = "ok" THEN critical ELSE critical + 1]

\* mutant: a failed setPermissions leaves the file open
openLogFileStaysOpen(f, d, open) ==
    [fs       |-> IF open # "openFails" /\ ~exists(f, LogPath(d))
                  THEN putFile(f, LogPath(d), [data |-> <<>>, mtime |-> now])
                  ELSE f,
     isOpen   |-> open # "openFails",
     critical |-> IF open = "ok" THEN critical ELSE critical + 1]

\* openLogFile: Append mode creates the file when it is missing
openLogFile(f, d, open) ==
    [fs       |-> IF open # "openFails" /\ ~exists(f, LogPath(d))
                  THEN putFile(f, LogPath(d), [data |-> <<>>, mtime |-> now])
                  ELSE f,
     isOpen   |-> open = "ok",
     critical |-> IF open = "ok" THEN critical ELSE critical + 1]

\* mutant: every append starts the timer anew
restartFlusher == FLUSH_INTERVAL

\* "if (!m_flusher.isActive()) m_flusher.start()"
startFlusher == IF m_flusher THEN remaining ELSE FLUSH_INTERVAL

addLogMessage(len, renameOk, open, rmFail) ==
    /\ alive
    /\ nextId <= MaxAppends
    /\ open # "ok" => critical < MaxCritical
    /\ nextId' = nextId + 1
    /\ UNCHANGED <<config, m_path, now, alive>>
    /\ IF ~m_logFile
       THEN UNCHANGED <<m_logFile, timer, fs, pool, history>>
       ELSE LET rec == [k |-> "rec", id |-> nextId, len |-> len]
                log == LogPath(m_path)
                early == streamOverflows(len)
                f1 == IF early THEN writeRecord(fs, log, rec) ELSE fs
                sw == IF m_deleteOld THEN deleteOld(f1, m_path, rmFail)
                      ELSE [fs |-> f1, sweep |-> sweep]
                \* m_logFile.size() reads the file, not the stream's buffer
                rotate == needsBackup(sw.fs, log)
                \* the buffered record reaches the file when the file is closed
                \* (aboutToClose) or when the stream goes out of scope
                f3 == IF early THEN sw.fs ELSE writeRecord(sw.fs, log, rec)
                mb == makeBackup(f3, m_path, renameOk)
                op == openLogFile(mb.fs, m_path, open)
            IN  /\ written' = Append(written, rec)
                /\ sweep' = sw.sweep
                /\ IF rotate
                   THEN /\ fs' = op.fs
                        /\ pool' = mb.pool
                        /\ picked' = mb.picked
                        /\ m_logFile' = op.isOpen
                        /\ critical' = op.critical
                        /\ m_flusher' = FALSE /\ remaining' = 0 /\ unflushed' = NoRecord
                   ELSE /\ fs' = f3
                        /\ m_flusher' = TRUE
                        /\ remaining' = startFlusher
                        /\ unflushed' = IF unflushed = NoRecord THEN 0 ELSE unflushed
                        /\ UNCHANGED <<pool, picked, m_logFile, critical>>

\* the same name up to the case of its letters
fold(d) == IF d = "D1" THEN "d1" ELSE d

\* mutant: the directories are compared without regard to case
sameDirectoryFolded(newPath) == fold(newPath) = fold(m_path)

\* "newPath.data() == m_path.parentPath().data()": QString equality
sameDirectory(newPath) == newPath = m_path

changePath(newPath, renameOk, open, rmFail) ==
    /\ alive
    /\ open # "ok" => critical < MaxCritical
    /\ IF sameDirectory(newPath)
       THEN UNCHANGED vars
       ELSE LET log == LogPath(newPath)
                sw == IF m_deleteOld THEN deleteOld(fs, newPath, rmFail)
                      ELSE [fs |-> fs, sweep |-> sweep]
                obsolete == isObsolete(lastModified(sw.fs, log), m_ageType, m_age)
                backup == ~obsolete /\ needsBackup(sw.fs, log)
                mb == makeBackup(sw.fs, newPath, renameOk)
                f2 == IF obsolete THEN removeFile(sw.fs, log)
                      ELSE IF backup THEN mb.fs ELSE sw.fs
                op == openLogFile(f2, newPath, open)
            IN  /\ m_path' = newPath
                /\ m_flusher' = FALSE /\ remaining' = 0 /\ unflushed' = NoRecord
                /\ sweep' = sw.sweep
                /\ pool' = IF backup THEN mb.pool ELSE pool
                /\ picked' = IF backup THEN mb.picked ELSE picked
                /\ fs' = op.fs
                /\ m_logFile' = op.isOpen
                /\ critical' = op.critical
                /\ UNCHANGED <<config, now, alive, nextId, written>>

\* m_flusher's timeout; the records are in the file already, because the
\* stream flushes the file each time it hands over its buffer
flushLog ==
    /\ alive
    /\ m_flusher
    /\ m_flusher' = FALSE /\ remaining' = 0 /\ unflushed' = NoRecord
    /\ UNCHANGED <<config, m_path, m_logFile, fs, pool, now, alive, nextId, history>>

\* mutant: the destructor closes the file and leaves the timer as it is
FileLoggerDestructorKeepsTimer ==
    /\ alive
    /\ alive' = FALSE
    /\ m_logFile' = FALSE
    /\ UNCHANGED <<config, m_path, timer, fs, pool, now, nextId, history>>

\* ~FileLogger, when the application shuts down: closeLogFile
FileLoggerDestructor ==
    /\ alive
    /\ alive' = FALSE
    /\ m_flusher' = FALSE /\ remaining' = 0 /\ unflushed' = NoRecord
    /\ m_logFile' = FALSE
    /\ UNCHANGED <<config, m_path, fs, pool, now, nextId, history>>

state == <<m_path, m_logFile, timer, fs, pool, now, alive, nextId, history>>

setAge(value) ==
    /\ alive /\ m_age' = value
    /\ UNCHANGED <<m_ageType, m_backup, m_compressBackups, m_deleteOld, m_maxSize, state>>

setAgeType(value) ==
    /\ alive /\ m_ageType' = value
    /\ UNCHANGED <<m_age, m_backup, m_compressBackups, m_deleteOld, m_maxSize, state>>

setBackup(value) ==
    /\ alive /\ m_backup' = value
    /\ UNCHANGED <<m_age, m_ageType, m_compressBackups, m_deleteOld, m_maxSize, state>>

setCompressBackups(value) ==
    /\ alive /\ m_compressBackups' = value
    /\ UNCHANGED <<m_age, m_ageType, m_backup, m_deleteOld, m_maxSize, state>>

setDeleteOld(value) ==
    /\ alive /\ m_deleteOld' = value
    /\ UNCHANGED <<m_age, m_ageType, m_backup, m_compressBackups, m_maxSize, state>>

\* mutant: the value lands in m_age
setMaxSizeIntoAge(value) ==
    /\ alive /\ m_age' = value
    /\ UNCHANGED <<m_ageType, m_backup, m_compressBackups, m_deleteOld, m_maxSize, state>>

setMaxSize(value) ==
    /\ alive /\ m_maxSize' = value
    /\ UNCHANGED <<m_age, m_ageType, m_backup, m_compressBackups, m_deleteOld, state>>

Tick ==
    /\ alive
    /\ now < MaxTime
    /\ now' = now + 1
    /\ UNCHANGED <<config, m_path, m_logFile, timer, fs, pool, alive, nextId, history>>

\* a second passes; a timer that has run out fires before the next second
Tock ==
    /\ alive
    /\ m_flusher => remaining > 0
    /\ remaining' = IF m_flusher THEN remaining - 1 ELSE remaining
    /\ unflushed' = IF unflushed = NoRecord THEN NoRecord ELSE unflushed + 1
    /\ UNCHANGED <<config, m_path, m_logFile, m_flusher, fs, pool, now, alive, nextId, history>>

----------------------------------------------------------------------------
(* CmpressTask::run on a pool thread, one action per step that other       *)
(* threads can observe.  pc: queued -> opened -> writing -> compressed ->  *)
(* renaming -> done, or failed.                                            *)

mainVars == <<config, m_path, m_logFile, timer, now, alive, nextId, history>>

setTask(i, t) == [pool EXCEPT ![i] = t]

\* mutant: a failed compression leaves what it wrote
compressFailedKeepsDest(f, destPath) == f

\* compressBackupFile, "else" branch of "if (ok)"
compressFailed(f, destPath) == removeFile(f, destPath)

\* run() up to the two open() calls of compressBackupFile.
\* sourceOk/destOk = FALSE: the open fails for a reason outside the program.
compressBackupFileOpen(i, sourceOk, destOk) ==
    /\ alive
    /\ pool[i].pc = "queued"
    /\ LET t == pool[i]
           destPath == TmpPath(t.m_path, now)
           mtime == lastModified(fs, t.m_path)
       IN  IF ~(sourceOk /\ exists(fs, t.m_path))
           THEN /\ pool' = setTask(i, [t EXCEPT !.pc = "failed", !.err = "source",
                                                !.destPath = destPath, !.mtime = mtime])
                /\ fs' = fs
           ELSE IF ~(destOk /\ ~exists(fs, destPath))
           THEN /\ pool' = setTask(i, [t EXCEPT !.pc = "failed", !.err = "dest",
                                                !.destPath = destPath, !.mtime = mtime])
                /\ fs' = fs
           ELSE /\ pool' = setTask(i, [t EXCEPT !.pc = "opened", !.destPath = destPath,
                                                !.mtime = mtime,
                                                !.input = fs[t.m_path].data])
                /\ fs' = putFile(fs, destPath, [data |-> <<>>, mtime |-> now])
    /\ UNCHANGED mainVars

\* the write of an open file reaches the path only while the path still names it
writeDest(f, destPath, bytes) ==
    IF exists(f, destPath) THEN putFile(f, destPath, [data |-> bytes, mtime |-> now])
    ELSE f

\* Utils::Gzip::compress before Z_FINISH; ok = FALSE: a read or write fails
compressBackupFileWrite(i, ok) ==
    /\ alive
    /\ pool[i].pc = "opened"
    /\ LET t == pool[i]
       IN  IF ok
           THEN /\ fs' = writeDest(fs, t.destPath, compressPartial(t.input))
                /\ pool' = setTask(i, [t EXCEPT !.pc = "writing"])
           ELSE /\ fs' = compressFailed(fs, t.destPath)
                /\ pool' = setTask(i, [t EXCEPT !.pc = "failed", !.err = "codec"])
    /\ UNCHANGED mainVars

\* the Z_FINISH round, close(), and the timestamps set through a file
\* reopened in Append mode (which creates the file when it is gone)
compressBackupFileFinish(i, ok) ==
    /\ alive
    /\ pool[i].pc = "writing"
    /\ LET t == pool[i]
           f1 == writeDest(fs, t.destPath, compress(t.input))
           bytes == IF exists(f1, t.destPath) THEN f1[t.destPath].data ELSE <<>>
       IN  IF ok
           THEN /\ fs' = putFile(f1, t.destPath, [data |-> bytes, mtime |-> t.mtime])
                /\ pool' = setTask(i, [t EXCEPT !.pc = "compressed"])
           ELSE /\ fs' = compressFailed(fs, t.destPath)
                /\ pool' = setTask(i, [t EXCEPT !.pc = "failed", !.err = "codec"])
    /\ UNCHANGED mainVars

\* removeFile(m_path), then m_callback up to the end of its name loop
runRemoveSource(i) ==
    /\ alive
    /\ pool[i].pc = "compressed"
    /\ LET t == pool[i]
           f1 == removeFile(fs, t.m_path)
       IN  /\ fs' = f1
           /\ pool' = setTask(i, [t EXCEPT !.pc = "renaming",
                                           !.renameTo = backupName(f1, t.base, TRUE, 0)])
    /\ UNCHANGED mainVars

\* m_callback: Utils::Fs::renameFile(renameFrom, renameTo)
runRename(i) ==
    /\ alive
    /\ pool[i].pc = "renaming"
    /\ fs' = renameFile(fs, pool[i].destPath, pool[i].renameTo)
    /\ pool' = setTask(i, [pool[i] EXCEPT !.pc = "done"])
    /\ UNCHANGED mainVars

\* the process ends, at any point of any task
Terminate ==
    /\ alive
    /\ alive' = FALSE
    /\ UNCHANGED <<config, m_path, m_logFile, timer, fs, pool, now, nextId, history>>

----------------------------------------------------------------------------
(* Rotation alone: backups on, no compression, no sweep, no failing call *)

RecLens == {70, 80, 20000}
MaxSizes == {100, 150}

InitFiles(d) == LogPath(d) :> [data |-> <<>>, mtime |-> 0]

InitRot ==
    /\ m_age = 1 /\ m_ageType = "DAYS"
    /\ m_backup = TRUE /\ m_compressBackups = FALSE /\ m_deleteOld = FALSE
    /\ m_maxSize \in MaxSizes
    /\ m_path = "d1" /\ m_logFile = TRUE /\ m_flusher = FALSE
    /\ remaining = 0 /\ unflushed = NoRecord
    /\ fs = InitFiles("d1")
    /\ pool = <<>> /\ now = 0 /\ alive = TRUE /\ nextId = 1
    /\ written = <<>> /\ picked = <<>> /\ sweep = NoSweep /\ critical = 0

NextRot ==
    \/ \E len \in RecLens : addLogMessage(len, TRUE, "ok", {})
    \/ Tick

SpecRot == InitRot /\ [][NextRot]_vars

----------------------------------------------------------------------------
(* Background compression: backups and compression on, the sweep off *)

MaxTasks == 2
MaxGzTime == 1
GzLens == {80, 20000}

InitGz ==
    /\ m_age = 1 /\ m_ageType = "DAYS"
    /\ m_backup = TRUE /\ m_compressBackups = TRUE /\ m_deleteOld = FALSE
    /\ m_maxSize = 100
    /\ m_path = "d1" /\ m_logFile = TRUE /\ m_flusher = FALSE
    /\ remaining = 0 /\ unflushed = NoRecord
    /\ fs = InitFiles("d1")
    /\ pool = <<>> /\ now = 0 /\ alive = TRUE /\ nextId = 1
    /\ written = <<>> /\ picked = <<>> /\ sweep = NoSweep /\ critical = 0

\* one step of one task; outcomes: {TRUE}, or BOOLEAN when calls may fail
Worker(outcomes) ==
    \E i \in DOMAIN pool :
        \/ \E sourceOk, destOk \in outcomes : compressBackupFileOpen(i, sourceOk, destOk)
        \/ \E ok \in outcomes : compressBackupFileWrite(i, ok)
        \/ \E ok \in outcomes : compressBackupFileFinish(i, ok)
        \/ runRemoveSource(i)
        \/ runRename(i)

NextGz ==
    \/ /\ Len(pool) < MaxTasks
       /\ \E len \in GzLens, renameOk \in BOOLEAN : addLogMessage(len, renameOk, "ok", {})
    \/ Worker(BOOLEAN)
    \/ now < MaxGzTime /\ Tick
    \/ Terminate

SpecGz == InitGz /\ [][NextGz]_vars

\* failing calls, no termination; every append is a rotation
NextGzFail ==
    \/ /\ Len(pool) < MaxTasks
       /\ \E renameOk \in BOOLEAN : addLogMessage(20000, renameOk, "ok", {})
    \/ Worker(BOOLEAN)
    \/ now < MaxGzTime /\ Tick

SpecGzFail == InitGz /\ [][NextGzFail]_vars

\* the same with no failing call and no termination; the pool runs every
\* task it was given
NextGzOk ==
    \/ /\ Len(pool) < MaxTasks
       /\ \E len \in GzLens : addLogMessage(len, TRUE, "ok", {})
    \/ Worker({TRUE})
    \/ now < MaxGzTime /\ Tick

SpecGzOk == InitGz /\ [][NextGzOk]_vars /\ WF_vars(Worker({TRUE}))

----------------------------------------------------------------------------
\* as SpecRot, and the rename of a rotation may fail
NextRename ==
    \/ \E len \in RecLens, renameOk \in BOOLEAN : addLogMessage(len, renameOk, "ok", {})
    \/ Tick

SpecRename == InitRot /\ [][NextRename]_vars

----------------------------------------------------------------------------
(* The sweep: plain backups of different ages, deleteOld switched on and off *)

Ages == {0, 1, 2}

InitEvict ==
    /\ m_age \in Ages /\ m_ageType \in AgeTypes
    /\ m_backup = TRUE /\ m_compressBackups = FALSE /\ m_deleteOld \in BOOLEAN
    /\ m_maxSize = 100
    /\ m_path = "d1" /\ m_logFile = TRUE /\ m_flusher = FALSE
    /\ remaining = 0 /\ unflushed = NoRecord
    /\ fs = InitFiles("d1")
    /\ pool = <<>> /\ now = 0 /\ alive = TRUE /\ nextId = 1
    /\ written = <<>> /\ picked = <<>> /\ sweep = NoSweep /\ critical = 0

NextEvict ==
    \/ \E len \in GzLens : addLogMessage(len, TRUE, "ok", {})
    \/ \E value \in BOOLEAN : setDeleteOld(value)
    \/ Tick

SpecEvict == InitEvict /\ [][NextEvict]_vars

----------------------------------------------------------------------------
(* The configuration: every setter, between appends, changePath calls and  *)
(* timer expiries.  Each directory holds what an earlier run left: a log   *)
(* of 120 bytes written today and a backup a day old.  The constructor's   *)
(* changePath found the log of d1 neither obsolete (age 2 days) nor over   *)
(* the limit (150) and opened it.                                          *)

MaxCfgAppends == 1

OldRecord(len) == [k |-> "rec", id |-> 0, len |-> len]

OldFiles(d) ==
    LogPath(d) :> [data |-> <<OldRecord(120)>>, mtime |-> 1]
    @@ BakPath(d, 0, FALSE) :> [data |-> <<OldRecord(120)>>, mtime |-> 0]

NewDirs == {"d2"}
CfgLens == {80}
CfgAges == {0, 1}
CfgAgeTypes == {"DAYS", "MONTHS"}

InitCfg ==
    /\ m_age = 2 /\ m_ageType = "DAYS"
    /\ m_backup = TRUE /\ m_compressBackups = FALSE /\ m_deleteOld = FALSE
    /\ m_maxSize = 150
    /\ m_path = "d1" /\ m_logFile = TRUE /\ m_flusher = FALSE
    /\ remaining = 0 /\ unflushed = NoRecord
    /\ fs = OldFiles("d1") @@ OldFiles("d2")
    /\ pool = <<>> /\ now = 1 /\ alive = TRUE /\ nextId = 1
    /\ written = <<>> /\ picked = <<>> /\ sweep = NoSweep /\ critical = 0

Setter ==
    \/ \E value \in CfgAges : setAge(value)
    \/ \E value \in CfgAgeTypes : setAgeType(value)
    \/ \E value \in BOOLEAN : setBackup(value)
    \/ \E value \in BOOLEAN : setCompressBackups(value)
    \/ \E value \in BOOLEAN : setDeleteOld(value)
    \/ \E value \in MaxSizes : setMaxSize(value)

NextCfg ==
    \/ Setter
    \/ /\ nextId <= MaxCfgAppends
       /\ \E len \in CfgLens : addLogMessage(len, TRUE, "ok", {})
    \/ \E d \in NewDirs : changePath(d, TRUE, "ok", {})
    \/ flushLog

SpecCfg == InitCfg /\ [][NextCfg]_vars

----------------------------------------------------------------------------
(* Failing opens: openLogFile fails or succeeds at every rotation and at    *)
(* every changePath; backups and the sweep are on, and with age 0 every     *)
(* backup is obsolete as soon as it exists.                                 *)

InitOpen ==
    /\ m_age = 0 /\ m_ageType = "DAYS"
    /\ m_backup = TRUE /\ m_compressBackups = FALSE /\ m_deleteOld = TRUE
    /\ m_maxSize = 100
    /\ m_path = "d1" /\ m_logFile = TRUE /\ m_flusher = FALSE
    /\ remaining = 0 /\ unflushed = NoRecord
    /\ fs = InitFiles("d1")
    /\ pool = <<>> /\ now = 0 /\ alive = TRUE /\ nextId = 1
    /\ written = <<>> /\ picked = <<>> /\ sweep = NoSweep /\ critical = 0

NextOpen ==
    \/ \E len \in GzLens, open \in OpenOutcomes : addLogMessage(len, TRUE, open, {})
    \/ \E d \in Dirs, open \in OpenOutcomes : changePath(d, TRUE, open, {})
    \/ flushLog

SpecOpen == InitOpen /\ [][NextOpen]_vars

----------------------------------------------------------------------------
(* Directory names that differ in case only; backups and the sweep are on   *)
(* (age 0).                                                                 *)

PathDirs == {"d1", "D1"}

NextPath ==
    \/ \E len \in GzLens : addLogMessage(len, TRUE, "ok", {})
    \/ \E d \in PathDirs : changePath(d, TRUE, "ok", {})
    \/ flushLog

SpecPath == InitOpen /\ [][NextPath]_vars

----------------------------------------------------------------------------
(* The flush timer in seconds: appends, rotations and changePath calls at   *)
(* any second, the timeout when the interval has run out                    *)

NextFlush ==
    \/ \E len \in GzLens : addLogMessage(len, TRUE, "ok", {})
    \/ \E d \in Dirs : changePath(d, TRUE, "ok", {})
    \/ Tock
    \/ remaining = 0 /\ flushLog

SpecFlush == InitRot /\ [][NextFlush]_vars

----------------------------------------------------------------------------
(* The sweep beside the compression tasks: backups, compression and the     *)
(* sweep on, age 0, compressBackups switched off and on, no failing call    *)

InitSweepGz ==
    /\ m_age = 0 /\ m_ageType = "DAYS"
    /\ m_backup = TRUE /\ m_compressBackups = TRUE /\ m_deleteOld = TRUE
    /\ m_maxSize = 100
    /\ m_path = "d1" /\ m_logFile = TRUE /\ m_flusher = FALSE
    /\ remaining = 0 /\ unflushed = NoRecord
    /\ fs = InitFiles("d1")
    /\ pool = <<>> /\ now = 0 /\ alive = TRUE /\ nextId = 1
    /\ written = <<>> /\ picked = <<>> /\ sweep = NoSweep /\ critical = 0

NextSweepGz ==
    \/ /\ Len(pool) < MaxTasks
       /\ \E len \in GzLens : addLogMessage(len, TRUE, "ok", {})
    \/ \E value \in BOOLEAN : setCompressBackups(value)
    \/ Worker({TRUE})
    \/ now < MaxGzTime /\ Tick

SpecSweepGz == InitSweepGz /\ [][NextSweepGz]_vars

----------------------------------------------------------------------------
(* The sweep with removals that fail: every append rotates, the sweep runs  *)
(* at every append and every changePath, age 1 day                          *)

InitRmFail ==
    /\ m_age = 1 /\ m_ageType = "DAYS"
    /\ m_backup = TRUE /\ m_compressBackups = FALSE /\ m_deleteOld = TRUE
    /\ m_maxSize = 100
    /\ m_path = "d1" /\ m_logFile = TRUE /\ m_flusher = FALSE
    /\ remaining = 0 /\ unflushed = NoRecord
    /\ fs = InitFiles("d1")
    /\ pool = <<>> /\ now = 0 /\ alive = TRUE /\ nextId = 1
    /\ written = <<>> /\ picked = <<>> /\ sweep = NoSweep /\ critical = 0

\* the removals that can fail in one sweep: none, or that of one backup
RmFails == {{}} \cup {{p} : p \in {q \in DOMAIN fs : q.kind = "bak"}}

NextRmFail ==
    \/ \E rmFail \in RmFails : addLogMessage(20000, TRUE, "ok", rmFail)
    \/ \E d \in Dirs, rmFail \in RmFails : changePath(d, TRUE, "ok", rmFail)
    \/ now < MaxGzTime /\ Tick

SpecRmFail == InitRmFail /\ [][NextRmFail]_vars

----------------------------------------------------------------------------
(* Every close of the log: rotations and changePath calls whose open may    *)
(* fail, the timer in seconds, and the shutdown                             *)

NextClose ==
    \/ \E len \in GzLens, open \in OpenOutcomes : addLogMessage(len, TRUE, open, {})
    \/ \E d \in Dirs, open \in OpenOutcomes : changePath(d, TRUE, open, {})
    \/ Tock
    \/ remaining = 0 /\ flushLog
    \/ FileLoggerDestructor

SpecClose == InitOpen /\ [][NextClose]_vars

----------------------------------------------------------------------------
(* Properties *)

activeData == IF exists(fs, LogPath(m_path)) THEN fs[LogPath(m_path)].data ELSE <<>>

\* the data of the backups that the first i rotations produced, in that order
RECURSIVE backupsData(_)
backupsData(i) ==
    IF i = 0 THEN <<>>
    ELSE backupsData(i - 1) \o
         (IF picked[i].done /\ exists(fs, picked[i].path)
          THEN fs[picked[i].path].data ELSE <<>>)

plainBackups == {p \in DOMAIN fs : p.kind = "bak"}

AllButLast(data) == SubSeq(data, 1, Len(data) - 1)

\* C1: with backups on, compression and the sweep off and no failing file
\* operation, the backups in creation order followed by the active file hold
\* exactly the records a logger that never rotates would have written.
C1_RotationKeepsContent == backupsData(Len(picked)) \o activeData = written

C1_Witness ==
    /\ Len(picked) >= 2
    /\ \A i \in 1..Len(picked) : picked[i].done
    /\ activeData # <<>>

Record(id, len) == [k |-> "rec", id |-> id, len |-> len]

AfterScenario == m_maxSize = 100 /\ written = <<Record(1, 80), Record(2, 70)>>

donePicks == SelectSeq(picked, LAMBDA e : e.done)

\* C4: no name is obtained while a file of that name exists, and the rotations
\* that produced a backup obtained <base>.bak, <base>.bak1, <base>.bak2, ...
C4_BackupNames ==
    /\ \A i \in 1..Len(picked) : ~picked[i].existed
    /\ \A i \in 1..Len(donePicks) : donePicks[i].path = BakPath(m_path, i - 1, FALSE)
    /\ \A i, j \in 1..Len(donePicks) : i # j => donePicks[i].path # donePicks[j].path

C4_Witness ==
    /\ Len(donePicks) >= 3
    /\ \E i \in 1..Len(picked) : ~picked[i].done

\* file p is complete and holds exactly the records data
holdsPlain(p, data) == p.kind \in {"bak", "log"} /\ fs[p].data = data
holdsGz(p, data) ==
    /\ p.kind \in {"gz", "tmp"}
    /\ decompress(fs[p].data).ok
    /\ decompress(fs[p].data).data = data
holders(data) == {p \in DOMAIN fs : holdsPlain(p, data) \/ holdsGz(p, data)}

\* C5 as stated, in the form a finite run decides: once a task whose
\* compression succeeded has finished, a file <base>.bak[N].gz holds the
\* rotated content with the modification time of the plain backup, and no
\* plain backup holds that content any more.
C5_AsStated ==
    \A i \in DOMAIN pool :
        pool[i].pc = "done" =>
            /\ \E p \in DOMAIN fs :
                  /\ p.kind = "gz"
                  /\ holdsGz(p, pool[i].input)
                  /\ fs[p].mtime = pool[i].mtime
            /\ \A p \in DOMAIN fs : p.kind = "bak" => fs[p].data # pool[i].input

rotated == {i \in 1..Len(picked) : picked[i].done}

quiescent == ~alive \/ \A i \in DOMAIN pool : pool[i].pc \in {"done", "failed"}

\* C6 as stated: every rotated content is on disk in a complete file in every
\* state, and once the tasks have finished or the process has ended no
\* rotated content is held by two files.
C6_AsStated ==
    \A i \in rotated :
        /\ holders(picked[i].data) # {}
        /\ quiescent => Cardinality(holders(picked[i].data)) = 1

failsNow(i) == pool[i].pc # "failed" /\ pool'[i].pc = "failed"

\* C7: the step in which a task fails leaves the plain source as it was,
\* removes what the task wrote to its destination, starts no callback and
\* leaves the log file open for appends.
C7_FailureLeavesSource ==
    [][\A i \in DOMAIN pool :
          failsNow(i) =>
              /\ exists(fs, pool[i].m_path) =>
                    /\ exists(fs', pool[i].m_path)
                    /\ fs'[pool[i].m_path] = fs[pool[i].m_path]
              /\ pool[i].pc = "queued" => fs' = fs
              /\ pool[i].pc # "queued" => ~exists(fs', pool[i].destPath)
              /\ pool'[i].renameTo = NoPath
              /\ m_logFile' = m_logFile /\ alive']_vars

C7_Witness ==
    \E i \in DOMAIN pool :
        /\ pool[i].pc = "failed" /\ pool[i].err = "codec"
        /\ exists(fs, pool[i].m_path) /\ fs[pool[i].m_path].data = pool[i].input
        /\ ~exists(fs, pool[i].destPath)
        /\ m_logFile /\ nextId <= MaxAppends

unitLen(ageType) ==
    CASE ageType = "DAYS" -> 1 [] ageType = "MONTHS" -> MonthLen [] OTHER -> YearLen

\* entry e of the last sweep had t + age <= now when the sweep ran
obsoleteThen(e) == e.mtime + sweep.age * unitLen(sweep.ageType) <= sweep.at

sweepIndex == 1..Len(sweep.list)

distinctTimes ==
    \A i, j \in sweepIndex : i # j => sweep.list[i].mtime # sweep.list[j].mtime

\* C8: over backups with pairwise different modification times a sweep walks
\* oldest to newest, removes exactly those with t + age <= now, and stops at
\* the first that is not obsolete.
C8_SweepRemovesObsolete ==
    (sweep.ran /\ distinctTimes) =>
        /\ \A i, j \in sweepIndex : i < j => sweep.list[i].mtime < sweep.list[j].mtime
        /\ sweep.removed = {sweep.list[i].path : i \in {j \in sweepIndex : obsoleteThen(sweep.list[j])}}
        /\ \A i \in sweepIndex : i < sweep.examined => obsoleteThen(sweep.list[i])
        /\ \/ sweep.examined = Len(sweep.list) /\ \A i \in sweepIndex : obsoleteThen(sweep.list[i])
           \/ sweep.examined \in sweepIndex /\ ~obsoleteThen(sweep.list[sweep.examined])
        /\ \A i \in sweepIndex : i > sweep.examined => sweep.list[i].path \notin sweep.removed

C8_Witness ==
    /\ sweep.ran /\ distinctTimes
    /\ Len(sweep.list) >= 3
    /\ Cardinality(sweep.removed) >= 1
    /\ sweep.examined < Len(sweep.list)

\* the number of configuration fields that a step changes
changedFields == Cardinality({i \in 1..6 : config'[i] # config[i]})

\* what the next decision must read: is the file at p over the limit, is the
\* file at p older than the age
overLimit(size) == m_backup /\ size >= m_maxSize
tooOld(p) == ~exists(fs, p) \/ fs[p].mtime + m_age * unitLen(m_ageType) <= now

\* the sweep of this step, if any, ran in directory d with the current fields
sweepUses(d) ==
    IF m_deleteOld
    THEN /\ sweep'.ran /\ sweep'.at = now
         /\ sweep'.age = m_age /\ sweep'.ageType = m_ageType
         /\ \A i \in 1..Len(sweep'.list) :
                /\ sweep'.list[i].path.dir = d
                /\ m_compressBackups => sweep'.list[i].path.kind # "bak"
    ELSE sweep' = sweep

appendDecision ==
    LET rec == written'[Len(written')]
        size == fileSize(fs, LogPath(m_path))
                + (IF rec.len > QTEXTSTREAM_BUFFERSIZE THEN rec.len ELSE 0)
    IN  /\ Len(picked') = Len(picked) + 1 <=> overLimit(size)
        /\ Len(pool') = Len(pool) + 1 <=> (overLimit(size) /\ m_compressBackups)
        /\ ~overLimit(size) => pool' = pool /\ picked' = picked
        /\ sweepUses(m_path)

changePathDecision ==
    LET log == LogPath(m_path')
        backup == ~tooOld(log) /\ overLimit(fileSize(fs, log))
    IN  /\ tooOld(log) => fs'[log].data = <<>>
        /\ Len(picked') = Len(picked) + 1 <=> backup
        /\ Len(pool') = Len(pool) + 1 <=> (backup /\ m_compressBackups)
        /\ ~backup => pool' = pool /\ picked' = picked
        /\ sweepUses(m_path')

\* C9: a setter stores its value in its own field and changes nothing else
\* (no other field, not the open state or the content of the active file, not
\* the backups, not the flush timer, not the compression jobs); a setter
\* called with the value the field already holds thus changes nothing; only a
\* setter changes a field; and an append or a changePath decides on rotation,
\* on compression and on the sweep with the values the fields hold then.
C9_SettersChangeOwnField ==
    [][ /\ \A value \in CfgAges :
             setAge(value) => m_age' = value /\ UNCHANGED state
        /\ \A value \in CfgAgeTypes :
             setAgeType(value) => m_ageType' = value /\ UNCHANGED state
        /\ \A value \in BOOLEAN :
             /\ setBackup(value) => m_backup' = value /\ UNCHANGED state
             /\ setCompressBackups(value) =>
                    m_compressBackups' = value /\ UNCHANGED state
             /\ setDeleteOld(value) =>
                    m_deleteOld' = value /\ UNCHANGED state
        /\ \A value \in MaxSizes :
             setMaxSize(value) => m_maxSize' = value /\ UNCHANGED state
        /\ config' # config => changedFields = 1 /\ UNCHANGED state
        /\ (m_logFile /\ nextId' = nextId + 1) => appendDecision
        /\ m_path' # m_path => changePathDecision
      ]_vars

\* after setMaxSize, setCompressBackups, setDeleteOld, setAge and setAgeType
\* changed every field but m_backup: a compression job is queued, the flush
\* timer runs, and the last sweep ran with the new age
C9_Witness ==
    /\ m_maxSize = 100 /\ m_compressBackups /\ m_deleteOld
    /\ m_age = 1 /\ m_ageType = "MONTHS"
    /\ Len(pool) >= 1 /\ m_flusher /\ m_logFile
    /\ sweep.ran /\ sweep.age = 1 /\ sweep.ageType = "MONTHS"
    /\ nextId > 1

\* some file holds the record with this id
inSomeFile(id) ==
    \E p \in DOMAIN fs' : \E i \in 1..Len(fs'[p].data) :
        fs'[p].data[i].k = "rec" /\ fs'[p].data[i].id = id

\* the step ran openLogFile: a changePath to another directory or a rotation
openAttempted == m_path' # m_path \/ Len(picked') = Len(picked) + 1

\* C10: an open that fails reports one CRITICAL message and leaves the logger
\* closed with the flush timer stopped; while it is closed an append changes
\* no file, runs no sweep and no rotation and starts no timer; only a
\* changePath (to another directory) opens it again; a changePath whose open
\* succeeds leaves it open, and an append to an open logger is in a file after
\* the call.
C10_ClosedUntilChangePath ==
    [][ /\ critical' \in {critical, critical + 1}
        /\ critical' # critical => openAttempted /\ ~m_logFile'
        /\ (openAttempted /\ critical' = critical) => m_logFile'
        /\ ~m_logFile' => ~m_flusher'
        /\ (~m_logFile /\ nextId' = nextId + 1) =>
               UNCHANGED <<config, m_path, m_logFile, timer, fs, pool, now,
                           written, picked, sweep, critical>>
        /\ (~m_logFile /\ m_logFile') => m_path' # m_path
        /\ (m_logFile /\ nextId' = nextId + 1) =>
               /\ written' = Append(written, written'[Len(written')])
               /\ written'[Len(written')].id = nextId
               /\ inSomeFile(nextId)
      ]_vars

\* an open failed, an append was dropped, a changePath opened the log again
\* and the last append is the last record of the active file
C10_Witness ==
    /\ critical >= 1 /\ m_logFile
    /\ written # <<>> /\ Len(written) < nextId - 1
    /\ written[Len(written)].id = nextId - 1
    /\ activeData # <<>> /\ activeData[Len(activeData)].id = nextId - 1

\* the step is an append that moved the active file to a backup
rotatesNow ==
    /\ nextId' = nextId + 1
    /\ Len(picked') = Len(picked) + 1
    /\ picked'[Len(picked')].done

\* C11: the record of an append that rotates is the last record of the file
\* that the append moved to the backup name, and the active file that the
\* append reopened is empty.
C11_TriggerInBackup ==
    [][rotatesNow =>
          LET rec == written'[Len(written')]
              bak == picked'[Len(picked')].path
          IN  /\ rec.id = nextId
              /\ exists(fs', bak)
              /\ fs'[bak].data # <<>>
              /\ fs'[bak].data[Len(fs'[bak].data)] = rec
              /\ exists(fs', LogPath(m_path))
              /\ fs'[LogPath(m_path)].data = <<>>]_vars

\* right after a rotation: the last record offered is the last record of the
\* newest backup, behind older records, and the active file is empty
C11_Witness ==
    /\ picked # <<>> /\ picked[Len(picked)].done
    /\ activeData = <<>>
    /\ LET data == fs[picked[Len(picked)].path].data
       IN  Len(data) >= 2 /\ data[Len(data)].id = nextId - 1
    /\ Len(picked) >= 2

\* what a sweep in directory d removes when every removal succeeds
sweepTargets(d) ==
    IF m_deleteOld
    THEN {p \in DOMAIN fs : /\ p.dir = d /\ p.kind # "log"
                            /\ m_compressBackups => p.kind \in {"gz", "tmp"}
                            /\ tooOld(p)}
    ELSE {}

\* bak is the first of <d>.bak, .bak1, ... that names no file of the set
firstFree(bak, d, files) ==
    /\ bak.dir = d /\ bak.kind = "bak" /\ bak \notin files
    /\ \A k \in 0..(bak.n - 1) : BakPath(d, k, FALSE) \in files

\* C12: a changePath to another directory stops the flush timer, sweeps the new
\* directory iff deleteOld is on, then removes the log found there if it is
\* obsolete (no backup, whatever its size), else moves it to the first name
\* the sweep left free iff backups are on and it has reached maxSize, else
\* leaves it as it is, and at last opens the log of the new directory.
C12_ChangePathOrder ==
    [][m_path' # m_path =>
          LET d == m_path'
              log == LogPath(d)
              swept == DOMAIN fs \ sweepTargets(d)
              obsolete == tooOld(log)
              rotate == ~obsolete /\ overLimit(fileSize(fs, log))
          IN  /\ ~m_flusher'
              /\ sweepUses(d)
              /\ m_deleteOld => sweep'.removed = sweepTargets(d)
              /\ m_logFile' /\ exists(fs', log)
              /\ obsolete =>
                    /\ picked' = picked /\ pool' = pool
                    /\ fs'[log].data = <<>>
                    /\ DOMAIN fs' \ {log} = swept \ {log}
              /\ rotate =>
                    /\ Len(picked') = Len(picked) + 1
                    /\ firstFree(picked'[Len(picked')].path, d, swept)
                    /\ fs'[picked'[Len(picked')].path] = fs[log]
                    /\ fs'[log].data = <<>>
                    /\ DOMAIN fs' = swept \cup {picked'[Len(picked')].path}
              /\ (~obsolete /\ ~rotate) =>
                    /\ picked' = picked /\ pool' = pool
                    /\ fs'[log] = fs[log]
                    /\ DOMAIN fs' = swept
              /\ \A p \in DOMAIN fs' \cap DOMAIN fs :
                    (p # log /\ ~(rotate /\ p = picked'[Len(picked')].path)) => fs'[p] = fs[p]
      ]_vars

\* after a changePath to d2 with backups on, maxSize 100 and age 0: the sweep
\* removed the old backup, and the old log of 120 bytes is gone without a backup
C12_Witness ==
    /\ m_path = "d2" /\ nextId = 1
    /\ m_backup /\ m_maxSize = 100 /\ m_deleteOld
    /\ sweep.ran /\ sweep.removed = {BakPath("d2", 0, FALSE)}
    /\ picked = <<>>
    /\ activeData = <<>>
    /\ {p \in DOMAIN fs : p.dir = "d2"} = {LogPath("d2")}

\* C13: a changePath with the directory the logger has changes no variable
\* (file, timer, backups, sweep, open state), a changePath with any other
\* string, one that differs in the case of a letter included, can act and
\* makes that string the directory; every changePath leaves its argument as
\* the directory, so that a second call with it changes nothing.
C13_SameDirectoryNoOp ==
    /\ [](\A d \in PathDirs :
             d # m_path => ENABLED (changePath(d, TRUE, "ok", {}) /\ m_path' = d /\ m_logFile'))
    /\ [][\A d \in PathDirs :
             changePath(d, TRUE, "ok", {}) =>
                 /\ m_path' = d
                 /\ d = m_path => UNCHANGED vars]_vars

\* the logger is in D1 after it was in d1, with a running flush timer and a
\* log that reached maxSize: changePath("D1") would stop the one and rotate or
\* remove the other if it acted
C13_Witness ==
    /\ m_path = "D1" /\ m_logFile /\ m_flusher
    /\ Size(activeData) >= m_maxSize
    /\ \E p \in DOMAIN fs : p.dir = "d1"

\* the tasks that have yet to read or to remove their source
needSource == {i \in DOMAIN pool : pool[i].pc \in {"queued", "opened", "writing", "compressed"}}

\* C14 as stated: two tasks that both have yet to read or to remove their
\* source never have the same source path.
C14_AsStated ==
    \A i, j \in needSource : i # j => pool[i].m_path # pool[j].m_path

\* the step is the timeout of the flush timer
timeoutNow == m_flusher /\ ~m_flusher' /\ nextId' = nextId /\ m_path' = m_path

\* C15: an append to the open file that does not rotate leaves the timer
\* pending; while a record waits for its flush the timer is pending and runs
\* out FLUSH_INTERVAL seconds after the oldest waiting record was appended, so
\* no record waits longer, whatever is appended meanwhile; an append while the
\* timer is pending does not change its remaining time; and the one timeout
\* covers every waiting record and leaves the timer stopped.
C15_FlushWithinInterval ==
    [][ /\ (m_logFile /\ nextId' = nextId + 1 /\ picked' = picked) =>
               /\ m_flusher' /\ unflushed' # NoRecord
               /\ m_flusher => remaining' = remaining
        /\ unflushed' # NoRecord =>
               /\ m_flusher' /\ m_logFile'
               /\ unflushed' <= FLUSH_INTERVAL
               /\ remaining' + unflushed' = FLUSH_INTERVAL
        /\ timeoutNow => unflushed' = NoRecord /\ remaining' = 0
      ]_vars

\* two records in the active file, the older appended FLUSH_INTERVAL seconds
\* ago, the timer run out and about to fire
C15_Witness ==
    /\ m_logFile /\ m_flusher /\ remaining = 0
    /\ unflushed = FLUSH_INTERVAL
    /\ Len(activeData) >= 2

\* the step is an append whose rotation renamed nothing
renameFailsNow ==
    /\ nextId' = nextId + 1
    /\ Len(picked') = Len(picked) + 1
    /\ ~picked'[Len(picked')].done

\* C16: an append whose rotation fails to rename leaves the log open under its
\* name, holding what it held and the record of that append, and makes no
\* other file; the backups in rotation order followed by the active file hold
\* every record written, in every state; and after a failed rename every
\* append is written and rotates again until a rename succeeds.
C16_FailedRenameKeepsLog ==
    /\ [](backupsData(Len(picked)) \o activeData = written)
    /\ [][ /\ renameFailsNow =>
                 /\ m_logFile'
                 /\ exists(fs, LogPath(m_path)) /\ exists(fs', LogPath(m_path))
                 /\ fs'[LogPath(m_path)].data =
                        Append(fs[LogPath(m_path)].data, written'[Len(written')])
                 /\ DOMAIN fs' = DOMAIN fs
          /\ (nextId' = nextId + 1 /\ picked # <<>> /\ ~picked[Len(picked)].done) =>
                 /\ Len(written') = Len(written) + 1
                 /\ Len(picked') = Len(picked) + 1
        ]_vars

\* two renames failed in a row, a later one succeeded, and the log has been
\* written to since
C16_Witness ==
    /\ Len(picked) >= 3
    /\ ~picked[1].done /\ ~picked[2].done /\ picked[3].done
    /\ Len(fs[picked[3].path].data) >= 3
    /\ activeData # <<>>

\* the step ran deleteOld: an append to the open file or a changePath to
\* another directory, with deleteOld on
sweepsNow == m_deleteOld /\ ((m_logFile /\ nextId' = nextId + 1) \/ m_path' # m_path)

\* C17 as stated: a sweep under compressBackups = TRUE removes no plain backup
\* and a sweep under compressBackups = FALSE removes no <base>.bak[N].gz.
C17_AsStated ==
    [][sweepsNow =>
          \A p \in sweep'.removed :
              /\ m_compressBackups => p.kind # "bak"
              /\ ~m_compressBackups => p.kind # "gz"]_vars

\* the paths that the sweep of this step lists before its first entry that is
\* not obsolete
beforeFirstKept ==
    LET L == sweep'.list
        kept == {i \in 1..Len(L) : ~(L[i].mtime + m_age * unitLen(m_ageType) <= now)}
    IN  {L[i].path : i \in {j \in 1..Len(L) : \A k \in kept : j < k}}

\* C18: a sweep removes every obsolete entry that it lists before the first
\* entry that is not obsolete, except those whose removal fails, which stay as
\* they are, also when a removal failed earlier in the list; and the append or
\* changePath that ran the sweep ends with the log open, the record of the
\* append in a file and the rotation made.
C18_SweepSkipsFailedRemoval ==
    [][sweepsNow =>
          /\ sweep'.ran
          /\ sweep'.failed \subseteq beforeFirstKept
          /\ sweep'.removed = beforeFirstKept \ sweep'.failed
          /\ \A p \in sweep'.failed : exists(fs', p) /\ fs'[p] = fs[p]
          /\ m_logFile' /\ exists(fs', LogPath(m_path'))
          /\ nextId' = nextId + 1 =>
                /\ written' = Append(written, written'[Len(written')])
                /\ inSomeFile(nextId)
                /\ Len(picked') = Len(picked) + 1 <=>
                      overLimit(fileSize(fs, LogPath(m_path)) + written'[Len(written')].len)
      ]_vars

\* the last sweep could not remove one entry and removed one that it listed
\* after it, and the log is open with the last record in a backup
C18_Witness ==
    /\ \E i, j \in sweepIndex :
          /\ i < j
          /\ sweep.list[i].path \in sweep.failed
          /\ sweep.list[j].path \in sweep.removed
    /\ m_logFile
    /\ written # <<>> /\ written[Len(written)].id = nextId - 1
    /\ picked # <<>> /\ picked[Len(picked)].done

\* C19: the flush timer is pending only while the log is open and the logger
\* exists; every step that closes the log, and every rotation, leaves the
\* timer stopped; the timeout fires only on an open log; after the destructor
\* the log is closed and the timer is stopped.
C19_TimerOnlyWhileOpen ==
    /\ [](/\ m_flusher => m_logFile /\ alive
          /\ ~alive => ~m_logFile /\ ~m_flusher)
    /\ [][ /\ (m_logFile /\ ~m_logFile') => ~m_flusher'
           /\ Len(picked') = Len(picked) + 1 => ~m_flusher'
           /\ m_path' # m_path => ~m_flusher'
           /\ timeoutNow /\ alive' => m_logFile /\ m_logFile'
         ]_vars

\* after the shutdown of a logger that had rotated, had seen an open fail and
\* had records in its log
C19_Witness ==
    /\ ~alive /\ ~m_logFile /\ ~m_flusher
    /\ critical >= 1 /\ picked # <<>>
    /\ activeData # <<>>

\* the source paths that the tasks of the pool have yet to read or to remove,
\* and the temporary destinations they have created and not yet renamed
sourcesInUse == {pool[i].m_path : i \in needSource}
destsInUse ==
    {pool[i].destPath :
        i \in {j \in DOMAIN pool :
                  pool[j].pc \in {"opened", "writing", "compressed", "renaming"}}}

\* C20 as stated: a sweep removes neither the source of a task that has yet
\* to read or remove it nor the temporary destination of a task that has
\* created it and not yet renamed it.
C20_AsStated ==
    [][sweepsNow => sweep'.removed \cap (sourcesInUse \cup destsInUse) = {}]_vars

====
